---------------------------- MODULE Spec2Model ----------------------------
(***************************************************************************)
(* Payment orchestration MVP (src/main.py): the fee engine, the quote      *)
(* (checkout) handler and the transaction ledger.                          *)
(*                                                                         *)
(* Units.  Money is counted in mills (1/1000 rupee), so 2000.01 rupees is  *)
(* 2000010 and the sub-cent amount 2000.005 is 2000005.  A percentage is   *)
(* counted in twentieths of a percent (0.5% is 10, 0.75% is 15).  A        *)
(* full-precision fee or total is the pair [whole, frac]: whole mills and  *)
(* frac/2000 of a mill, which is exact for amount * percentage / 100.      *)
(* Amounts rounded to 2 digits are counted in cents.  A success rate as the *)
(* store returns it is counted in ten-thousandths of a percent (95.0 is    *)
(* 950000), and in hundredths once rounded to 2 digits for an option.      *)
(* Python computes in binary doubles; the model computes the same          *)
(* expressions exactly.                                                    *)
(***************************************************************************)
EXTENDS Integers, Sequences, FiniteSets, TLC

\* ------------------------------------------------------------ bounds
\* Amounts of the fee engine's inputs lie within FeeSpread mills of a bracket edge.
FeeSpread == 12
\* Transaction ids are the tokens 1..MaxTokens.
MaxTokens == 2
\* The clock of the ledger specification runs to LedgerMaxTime seconds (the resolution of a timestamp).
LedgerMaxTime == 1
\* Quotes are asked for amounts up to QuoteSpread cents above a bracket edge.
QuoteSpread == 1
\* The quote specifications look at the clock up to second QuoteSlack, and from the
\* window's length to QuoteSlack seconds past it.
QuoteSlack == 1
\* The success-rate specification creates up to MaxRows transactions.
MaxRows == 3
\* The store fails under a statement at most MaxFaults times.
MaxFaults == 1

\* ------------------------------------------------- program constants
\* float('inf'), the upper bound of an open bracket.
INF == 2147483647
\* "/ 100" of a percentage counted in twentieths: the denominator of the
\* fraction of a mill in a full-precision fee.
FRAC == 2000
\* INTERVAL 30 DAY, in seconds.
WINDOW == 2592000
\* The success rate 95.0 used when the store has no data, in ten-thousandths of
\* a percent.
DEFAULT_RATE == 950000
\* The weight 1000 of 1 / total_amount in the score, for a total in cents and a
\* score counted in ten-thousandths.
SCORE_SCALE == 1000000000
\* The store's quotient * 100 has 4 fractional digits: ten-thousandths in 100%.
RATE_SCALE == 1000000

VARIABLES
    fee_amount_in,   \* calculate_fee's argument amount (mills)
    fee_mode_in,     \* calculate_fee's argument payment_mode
    fee_result,      \* what calculate_fee returned
    fee_pc,          \* "call" before calculate_fee ran, "returned" after
    ledger,          \* the rows of table transactions, in insertion order
    now,             \* the clock: datetime.now(), NOW(), CURRENT_TIMESTAMP (seconds)
    resp,            \* the response to the latest request
    last_write,      \* history: the latest create or update request and its outcome
    qlog,            \* history: the two latest quotes, and whether the ledger
                     \* was written between them
    conn,            \* per worker: the create_transaction request it is serving
                     \* statement by statement, and its open store transaction
    quote,           \* the create_checkout request that is served lookup by lookup
    store_up         \* whether pymysql.connect reaches the store

vars == <<fee_amount_in, fee_mode_in, fee_result, fee_pc,
          ledger, now, resp, last_write, qlog, conn, quote, store_up>>
feeVars == <<fee_amount_in, fee_mode_in, fee_result, fee_pc>>

\* ----------------------------------------------------- the fee engine
\* fee_configs: per mode the ordered (min_amount, max_amount, percentage) ranges.
fee_configs ==
    [ debit_card  |-> << <<0, 2000000, 0>>,             \* (0, 2000, 0.0)
                         <<2000010, INF, 10>> >>,       \* (2000.01, inf, 0.5)
      credit_card |-> << <<0, 25000000, 2>>,            \* (0, 25000, 0.1)
                         <<25000010, INF, 10>> >>,      \* (25000.01, inf, 0.5)
      netbanking  |-> << <<0, 10000000, 0>>,            \* (0, 10000, 0.0)
                         <<10000010, 50000000, 15>>,    \* (10000.01, 50000, 0.75)
                         <<50000010, INF, 20>> >>,      \* (50000.01, inf, 1.0)
      upi         |-> << <<0, INF, 0>> >> ]             \* (0, inf, 0.0)

KnownModes == DOMAIN fee_configs

\* config = fee_configs.get(payment_mode, fee_configs["upi"])
ConfigForCreditDefault(payment_mode) ==
    IF payment_mode \in KnownModes THEN fee_configs[payment_mode]
    ELSE fee_configs["credit_card"]

ConfigFor(payment_mode) ==
    IF payment_mode \in KnownModes THEN fee_configs[payment_mode]
    ELSE fee_configs["upi"]

\* if min_amount <= amount <= max_amount
InRangeExclusiveMin(range, amount) == range[1] < amount /\ amount <= range[2]

InRange(range, amount) == range[1] <= amount /\ amount <= range[2]

\* The scan of config["ranges"]: the first range that holds the amount gives the
\* percentage; fee_percentage stays 0.0 when none does.
RECURSIVE ScanRanges(_, _, _)
ScanRanges(ranges, i, amount) ==
    IF i > Len(ranges) THEN 0
    ELSE IF InRange(ranges[i], amount) THEN ranges[i][3]
    ELSE ScanRanges(ranges, i + 1, amount)

\* calculate_fee(amount, payment_mode) -> (fee_amount, total_amount, fee_percentage)
calculate_fee(amount, payment_mode) ==
    LET fee_percentage == ScanRanges(ConfigFor(payment_mode), 1, amount)
        num == amount * fee_percentage
        fee == [whole |-> num \div FRAC, frac |-> num % FRAC]
    IN  [ fee_amount     |-> fee,
          total_amount   |-> [whole |-> amount + fee.whole, frac |-> fee.frac],
          fee_percentage |-> fee_percentage ]

\* round(x, 2) of a full-precision amount, in cents.  An exact tie (half a cent)
\* goes to the even cent; the amounts the quotes draw produce no tie.
Round2(m) ==
    LET floor_c == m.whole \div 10
        rem     == m.whole % 10
    IN  IF rem > 5 \/ (rem = 5 /\ m.frac > 0) THEN floor_c + 1
        ELSE IF rem = 5 /\ m.frac = 0
             THEN (IF floor_c % 2 = 0 THEN floor_c ELSE floor_c + 1)
        ELSE floor_c

\* ---------------------------------------------------------- the store
NULL == "NULL"

\* Table transactions: transaction_id is a unique key.
UniqueKeyAbsent(db, transaction_id) == FALSE

UniqueKeyViolation(db, transaction_id) ==
    \E i \in DOMAIN db : db[i].transaction_id = transaction_id

\* The surrogate key the store assigns to a new row: one more than the
\* greatest key among the rows db.
NextRowId(db) ==
    IF db = <<>> THEN 1
    ELSE 1 + (CHOOSE m \in {db[i].id : i \in DOMAIN db} :
                 \A i \in DOMAIN db : db[i].id <= m)

\* INSERT INTO transactions (...) VALUES (...): the row the statement writes.
InsertedRowSwapped(db, transaction_id, transaction, current_time) ==
    [ id                     |-> NextRowId(db),
      transaction_id         |-> transaction_id,
      gateway                |-> transaction.gateway,
      payment_mode           |-> transaction.payment_mode,
      base_amount            |-> transaction.base_amount,
      fee_amount             |-> transaction.total_amount,
      total_amount           |-> transaction.fee_amount,
      status                 |-> transaction.status,
      gateway_transaction_id |-> NULL,
      gateway_response       |-> NULL,
      created_at             |-> current_time,
      updated_at             |-> current_time ]

InsertedRow(db, transaction_id, transaction, current_time) ==
    [ id                     |-> NextRowId(db),
      transaction_id         |-> transaction_id,
      gateway                |-> transaction.gateway,
      payment_mode           |-> transaction.payment_mode,
      base_amount            |-> transaction.base_amount,
      fee_amount             |-> transaction.fee_amount,
      total_amount           |-> transaction.total_amount,
      status                 |-> transaction.status,
      gateway_transaction_id |-> NULL,
      gateway_response       |-> NULL,
      created_at             |-> current_time,
      updated_at             |-> current_time ]

\* SELECT * FROM transactions WHERE transaction_id = %s; fetchone(): the index of
\* the row, 0 when there is none.
SelectByTransactionId(db, transaction_id) ==
    IF \E i \in DOMAIN db : db[i].transaction_id = transaction_id
    THEN CHOOSE i \in DOMAIN db :
            /\ db[i].transaction_id = transaction_id
            /\ \A j \in DOMAIN db : db[j].transaction_id = transaction_id => i <= j
    ELSE 0

\* get_db_connection: the body ran its statements on the working copy body.db;
\* leaving the with block commits it, an exception rolls back to what was last
\* committed (body.committed when the body itself called connection.commit()).
get_db_connectionCommitting(db, body) == body.db

get_db_connection(db, body) ==
    IF body.raised
    THEN (IF body.commit_called THEN body.committed ELSE db)
    ELSE body.db

\* TransactionResponse(...) built from a fetched row.
TransactionResponse(result) ==
    [ id                     |-> result.id,
      transaction_id         |-> result.transaction_id,
      gateway                |-> result.gateway,
      payment_mode           |-> result.payment_mode,
      base_amount            |-> result.base_amount,
      fee_amount             |-> result.fee_amount,
      total_amount           |-> result.total_amount,
      status                 |-> result.status,
      gateway_transaction_id |-> result.gateway_transaction_id,
      created_at             |-> result.created_at,
      updated_at             |-> result.updated_at ]

\* ------------------------------------------------ the ledger handlers
\* A transaction_id is a token 1, 2, ...; 0 stands for the empty string.
EMPTY == 0
NoBody == [none |-> TRUE]
Truthy(s) == s # NULL /\ s # ""

\* The response of a handler whose try block raised: every exception, the
\* handler's own HTTPException included, reaches "except Exception" and becomes
\* HTTPException(500, "Database error: ...").
ErrorResponse(op, transaction_id, error) ==
    [op |-> op, code |-> 500, tid |-> transaction_id, detail |-> error, body |-> NoBody]

OkResponse(op, transaction_id, body) ==
    [op |-> op, code |-> 200, tid |-> transaction_id, detail |-> "", body |-> body]

\* The quote history after a request that left the store as db2.
LogWrite(db2) ==
    IF db2 = ledger THEN qlog ELSE [qlog EXCEPT !.dirty = TRUE]

\* pymysql.connect raised: the with block did not run; get_db_connection has
\* no connection to roll back or close, and re-raises.
ConnectFailed(db) ==
    [ db |-> db, raised |-> TRUE, commit_called |-> FALSE, committed |-> db,
      error |-> "OperationalError: can't connect", result |-> 0 ]

\* The with block of create_transaction: INSERT, SELECT, connection.commit().
CreateBody(db, transaction_id, transaction, current_time) ==
    IF UniqueKeyViolation(db, transaction_id)
    THEN [db |-> db, raised |-> TRUE, commit_called |-> FALSE, committed |-> db,
          error |-> "IntegrityError: duplicate entry", result |-> 0]
    ELSE LET db1 == Append(db, InsertedRow(db, transaction_id, transaction, current_time))
             result == SelectByTransactionId(db1, transaction_id)
         IN  [db |-> db1, raised |-> result = 0, commit_called |-> TRUE,
              committed |-> db1,
              error |-> IF result = 0 THEN "500: Failed to create transaction" ELSE "",
              result |-> result]

\* POST /api/transactions.  generated is the token uuid.uuid4().hex yields,
\* used when the request's transaction_id is empty.
CreateTransaction(transaction, generated) ==
    LET transaction_id == IF transaction.transaction_id # EMPTY
                          THEN transaction.transaction_id ELSE generated
        body == IF store_up THEN CreateBody(ledger, transaction_id, transaction, now)
                ELSE ConnectFailed(ledger)
        db2  == get_db_connection(ledger, body)
    IN  /\ ledger' = db2
        /\ resp' = IF body.raised
                   THEN ErrorResponse("create", transaction_id, body.error)
                   ELSE OkResponse("create", transaction_id,
                                   TransactionResponse(body.db[body.result]))
        /\ last_write' = [op |-> "create", tid |-> transaction_id,
                          code |-> IF body.raised THEN 500 ELSE 200,
                          req |-> transaction, at |-> now]
        /\ qlog' = LogWrite(db2)
        /\ UNCHANGED <<now, feeVars, conn, quote, store_up>>

\* UPDATE transactions SET ..., updated_at = CURRENT_TIMESTAMP WHERE
\* transaction_id = %s: the row after the statement.
UpdatedRowKeepingTimestamp(row, status, gateway_transaction_id, gateway_response, t) ==
    [row EXCEPT
        !.status = IF Truthy(status) THEN status ELSE @,
        !.gateway_transaction_id =
            IF Truthy(gateway_transaction_id) THEN gateway_transaction_id ELSE @,
        !.gateway_response = IF Truthy(gateway_response) THEN gateway_response ELSE @]

UpdatedRowClearing(row, status, gateway_transaction_id, gateway_response, t) ==
    [row EXCEPT
        !.status = IF Truthy(status) THEN status ELSE @,
        !.gateway_transaction_id =
            IF Truthy(gateway_transaction_id) THEN gateway_transaction_id ELSE NULL,
        !.gateway_response = IF Truthy(gateway_response) THEN gateway_response ELSE NULL,
        !.updated_at = t]

UpdatedRowResettingCreated(row, status, gateway_transaction_id, gateway_response, t) ==
    [row EXCEPT
        !.status = IF Truthy(status) THEN status ELSE @,
        !.gateway_transaction_id =
            IF Truthy(gateway_transaction_id) THEN gateway_transaction_id ELSE @,
        !.gateway_response = IF Truthy(gateway_response) THEN gateway_response ELSE @,
        !.created_at = t,
        !.updated_at = t]

UpdatedRow(row, status, gateway_transaction_id, gateway_response, t) ==
    [row EXCEPT
        !.status = IF Truthy(status) THEN status ELSE @,
        !.gateway_transaction_id =
            IF Truthy(gateway_transaction_id) THEN gateway_transaction_id ELSE @,
        !.gateway_response = IF Truthy(gateway_response) THEN gateway_response ELSE @,
        !.updated_at = t]

\* The with block of update_transaction.  cursor.rowcount is the number of rows
\* the UPDATE changed (the client does not ask for the number of rows matched).
UpdateBody(db, transaction_id, status, gateway_transaction_id, gateway_response, t) ==
    IF Truthy(status) \/ Truthy(gateway_transaction_id) \/ Truthy(gateway_response)
    THEN LET db1 == [i \in DOMAIN db |->
                        IF db[i].transaction_id = transaction_id
                        THEN UpdatedRow(db[i], status, gateway_transaction_id,
                                        gateway_response, t)
                        ELSE db[i]]
             rowcount == Cardinality({i \in DOMAIN db : db1[i] # db[i]})
         IN  [db |-> db1, raised |-> rowcount = 0, commit_called |-> TRUE,
              committed |-> db1,
              error |-> IF rowcount = 0 THEN "404: Transaction not found" ELSE ""]
    ELSE [db |-> db, raised |-> TRUE, commit_called |-> FALSE, committed |-> db,
          error |-> "400: No fields to update"]

\* PUT /api/transactions/{transaction_id}
UpdateTransaction(transaction_id, status, gateway_transaction_id, gateway_response) ==
    LET body == IF store_up
                THEN UpdateBody(ledger, transaction_id, status, gateway_transaction_id,
                                gateway_response, now)
                ELSE ConnectFailed(ledger)
        db2  == get_db_connection(ledger, body)
    IN  /\ ledger' = db2
        /\ resp' = IF body.raised
                   THEN ErrorResponse("update", transaction_id, body.error)
                   ELSE OkResponse("update", transaction_id,
                                   [message |-> "Transaction updated successfully",
                                    transaction_id |-> transaction_id])
        /\ last_write' = [op |-> "update", tid |-> transaction_id,
                          code |-> IF body.raised THEN 500 ELSE 200,
                          req |-> [status |-> status,
                                   gateway_transaction_id |-> gateway_transaction_id,
                                   gateway_response |-> gateway_response],
                          at |-> now]
        /\ qlog' = LogWrite(db2)
        /\ UNCHANGED <<now, feeVars, conn, quote, store_up>>

\* GET /api/transactions/{transaction_id}
GetTransaction(transaction_id) ==
    LET result == SelectByTransactionId(ledger, transaction_id)
        body == IF store_up
                THEN [db |-> ledger, raised |-> result = 0, commit_called |-> FALSE,
                      committed |-> ledger]
                ELSE ConnectFailed(ledger)
    IN  /\ ledger' = get_db_connection(ledger, body)
        /\ resp' = IF ~store_up
                   THEN ErrorResponse("get", transaction_id, body.error)
                   ELSE IF result = 0
                   THEN ErrorResponse("get", transaction_id, "404: Transaction not found")
                   ELSE OkResponse("get", transaction_id, TransactionResponse(ledger[result]))
        /\ UNCHANGED <<now, last_write, qlog, feeVars, conn, quote, store_up>>

\* ORDER BY created_at DESC: row i may come before row j.
InOrderAscending(db, i, j) == db[i].created_at <= db[j].created_at

InOrder(db, i, j) == db[i].created_at >= db[j].created_at

\* The orders in which the store may return the rows S of db: rows of equal
\* created_at come in any order.
Orderings(db, S) ==
    {o \in [1..Cardinality(S) -> S] :
        /\ \A a, b \in DOMAIN o : a # b => o[a] # o[b]
        /\ \A a, b \in DOMAIN o : a < b => InOrder(db, o[a], o[b])}

\* GET /api/transactions: SELECT * FROM transactions [WHERE status = %s]
\* ORDER BY created_at DESC LIMIT %s.  The store rejects a negative LIMIT.
\* The response carries the request's status and limit (history).
ListTransactions(status, limit) ==
    LET matching == {i \in DOMAIN ledger : Truthy(status) => ledger[i].status = status}
        body == IF store_up
                THEN [db |-> ledger, raised |-> limit < 0, commit_called |-> FALSE,
                      committed |-> ledger, error |-> "ProgrammingError: LIMIT"]
                ELSE ConnectFailed(ledger)
    IN  /\ ledger' = get_db_connection(ledger, body)
        /\ \E o \in Orderings(ledger, matching) :
              LET n == IF limit < Cardinality(matching) THEN limit
                       ELSE Cardinality(matching)
                  results == [k \in 1..n |-> ledger[o[k]]]
              IN  resp' = IF body.raised
                          THEN [ErrorResponse("list", EMPTY, body.error)
                                    EXCEPT !.body = [status |-> status, limit |-> limit]]
                          ELSE OkResponse("list", EMPTY,
                                          [transactions |-> results, count |-> Len(results),
                                           status |-> status, limit |-> limit])
        /\ UNCHANGED <<now, last_write, qlog, feeVars, conn, quote, store_up>>

\* Time passes, to one of the instants at which the model looks at the clock.
Tick(instants) ==
    /\ \E t \in instants : t > now /\ now' = t
    /\ UNCHANGED <<ledger, resp, last_write, qlog, feeVars, conn, quote, store_up>>

\* ------------------------------- create_transaction, statement by statement
\* Requests are served by workers, each with its own connection (autocommit
\* off): a row a connection inserted is seen by that connection alone until it
\* commits.
Workers == {"w1", "w2"}

NoResponse == [op |-> "none", code |-> 0, tid |-> EMPTY, detail |-> "", body |-> NoBody]

IdleConn ==
    [ pc |-> "idle", transaction |-> NoBody, transaction_id |-> EMPTY,
      current_time |-> 0, pending |-> <<>>, result |-> NoBody, response |-> NoResponse,
      clean |-> FALSE, overlapped |-> FALSE, faults |-> 0,
      open |-> FALSE, scope |-> <<>> ]

\* The storage failures so far (history), over the workers ws.
RECURSIVE FaultsOf(_)
FaultsOf(ws) ==
    IF ws = {} THEN 0
    ELSE LET w == CHOOSE x \in ws : TRUE
         IN  conn[w].faults + FaultsOf(ws \ {w})

InFlight(w) == conn[w].pc \in {"connected", "inserted", "selected"}

\* The rows inserted and not yet committed, of every connection.
RECURSIVE PendingOf(_)
PendingOf(ws) ==
    IF ws = {} THEN <<>>
    ELSE LET w == CHOOSE x \in ws : TRUE
         IN  conn[w].pending \o PendingOf(ws \ {w})

\* The unique key transaction_id is held by another connection's uncommitted
\* row: a statement that needs the key waits for that connection to end.
KeyLocked(w, transaction_id) ==
    \E o \in Workers \ {w} : UniqueKeyViolation(conn[o].pending, transaction_id)

\* get_db_connection from the end of the with block on, for a connection that
\* was opened: commit, or rollback and re-raise; close in either case.  scope
\* (history) lists what get_db_connection did.
LeaveScopeLeaking(c, raised) ==
    IF raised
    THEN [c EXCEPT !.scope = @ \o <<"rollback", "raise">>]
    ELSE [c EXCEPT !.open = FALSE, !.scope = @ \o <<"commit", "close">>]

LeaveScope(c, raised) ==
    IF raised
    THEN [c EXCEPT !.open = FALSE, !.scope = @ \o <<"rollback", "raise", "close">>]
    ELSE [c EXCEPT !.open = FALSE, !.scope = @ \o <<"commit", "close">>]

\* What a connection's own statements read: the committed rows and its own.
TxnViewCommittedOnly(db, pending) == db

TxnView(db, pending) == db \o pending

\* create_transaction up to the opening of its connection: the transaction_id
\* and current_time are fixed.  clean (history): no row of that id is in the
\* ledger, and none has been committed since.
Begin(w, transaction, generated) ==
    LET transaction_id == IF transaction.transaction_id # EMPTY
                          THEN transaction.transaction_id ELSE generated
    IN  /\ conn[w].pc = "idle"
        /\ conn' = [conn EXCEPT ![w] =
               [IdleConn EXCEPT !.pc = "connected",
                                !.transaction = transaction,
                                !.transaction_id = transaction_id,
                                !.current_time = now,
                                !.faults = conn[w].faults,
                                !.open = TRUE,
                                !.scope = <<"connect">>,
                                !.clean = ~UniqueKeyViolation(ledger, transaction_id)]]
        /\ UNCHANGED <<ledger, now, resp, last_write, qlog, feeVars, quote, store_up>>

\* The scope of get_db_connection as worker w's connection stands: its working
\* copy is the committed rows and its own uncommitted ones.
ScopeOf(w, raised, commit_called) ==
    [ db |-> TxnView(ledger, conn[w].pending), raised |-> raised,
      commit_called |-> commit_called,
      committed |-> TxnView(ledger, conn[w].pending) ]

\* The INSERT.  On a duplicate key it raises: get_db_connection rolls back and
\* closes, the handler answers 500.  overlapped (history): another connection
\* held an uncommitted row when this one inserted.
Insert(w) ==
    LET c == conn[w]
    IN  /\ c.pc = "connected"
        /\ ~KeyLocked(w, c.transaction_id)
        /\ ledger' = IF UniqueKeyViolation(ledger, c.transaction_id)
                     THEN get_db_connection(ledger, ScopeOf(w, TRUE, FALSE))
                     ELSE ledger
        /\ conn' = [conn EXCEPT ![w] =
               IF UniqueKeyViolation(ledger, c.transaction_id)
               THEN [LeaveScope(c, TRUE) EXCEPT
                              !.pc = "done",
                              !.response = ErrorResponse("create", c.transaction_id,
                                               "IntegrityError: duplicate entry")]
               ELSE [c EXCEPT !.pc = "inserted",
                              !.pending = <<InsertedRow(ledger \o PendingOf(Workers),
                                                        c.transaction_id, c.transaction,
                                                        c.current_time)>>,
                              !.overlapped = PendingOf(Workers \ {w}) # <<>>]]
        /\ UNCHANGED <<now, resp, last_write, qlog, feeVars, quote, store_up>>

\* The SELECT of the created transaction; fetchone().
Select(w) ==
    LET c == conn[w]
        view == TxnView(ledger, c.pending)
        found == SelectByTransactionId(view, c.transaction_id)
    IN  /\ c.pc = "inserted"
        /\ conn' = [conn EXCEPT ![w] =
               [c EXCEPT !.pc = "selected",
                         !.result = IF found = 0 THEN NoBody ELSE view[found]]]
        /\ UNCHANGED <<ledger, now, resp, last_write, qlog, feeVars, quote, store_up>>

\* connection.commit(), then the response: the fetched row, or 500 when the
\* SELECT found none.  The connection is closed on the way out.
Commit(w) ==
    LET c == conn[w]
    IN  /\ c.pc = "selected"
        /\ ledger' = get_db_connection(ledger, ScopeOf(w, c.result = NoBody, TRUE))
        /\ conn' = [o \in Workers |->
               IF o = w
               THEN [LeaveScope(c, c.result = NoBody) EXCEPT
                              !.pc = "done",
                              !.pending = <<>>,
                              !.response =
                                  IF c.result # NoBody
                                  THEN OkResponse("create", c.transaction_id,
                                                  TransactionResponse(c.result))
                                  ELSE ErrorResponse("create", c.transaction_id,
                                                     "500: Failed to create transaction")]
               ELSE IF InFlight(o) /\ conn[o].transaction_id = c.transaction_id
                    THEN [conn[o] EXCEPT !.clean = FALSE]
                    ELSE conn[o]]
        /\ UNCHANGED <<now, resp, last_write, qlog, feeVars, quote, store_up>>

\* The store fails while the SELECT runs (the connection is lost): the
\* exception leaves the with block, get_db_connection rolls back and closes,
\* the handler answers 500.
SelectFails(w) ==
    LET c == conn[w]
    IN  /\ c.pc = "inserted"
        /\ FaultsOf(Workers) < MaxFaults
        /\ ledger' = get_db_connection(ledger, ScopeOf(w, TRUE, FALSE))
        /\ conn' = [conn EXCEPT ![w] =
               [LeaveScope(c, TRUE) EXCEPT
                         !.pc = "done",
                         !.pending = <<>>,
                         !.faults = @ + 1,
                         !.response = ErrorResponse("create", c.transaction_id,
                                          "OperationalError: lost connection")]]
        /\ UNCHANGED <<now, resp, last_write, qlog, feeVars, quote, store_up>>

\* The store fails under connection.commit(): the commit raises with nothing
\* committed, get_db_connection rolls back and closes, the handler answers 500.
CommitFails(w) ==
    LET c == conn[w]
    IN  /\ c.pc = "selected"
        /\ FaultsOf(Workers) < MaxFaults
        /\ ledger' = get_db_connection(ledger, ScopeOf(w, TRUE, FALSE))
        /\ conn' = [conn EXCEPT ![w] =
               [LeaveScope(c, TRUE) EXCEPT
                         !.pc = "done",
                         !.pending = <<>>,
                         !.faults = @ + 1,
                         !.response = ErrorResponse("create", c.transaction_id,
                                          "OperationalError: lost connection")]]
        /\ UNCHANGED <<now, resp, last_write, qlog, feeVars, quote, store_up>>

\* pymysql.connect raises: there is no connection to roll back or close; the
\* exception is re-raised and the handler answers 500.
ConnectFails(w, transaction) ==
    /\ conn[w].pc = "idle"
    /\ FaultsOf(Workers) < MaxFaults
    /\ conn' = [conn EXCEPT ![w] =
           [IdleConn EXCEPT !.pc = "done",
                            !.transaction = transaction,
                            !.transaction_id = transaction.transaction_id,
                            !.current_time = now,
                            !.faults = conn[w].faults + 1,
                            !.scope = <<"raise">>,
                            !.response = ErrorResponse("create", transaction.transaction_id,
                                             ConnectFailed(ledger).error)]]
    /\ UNCHANGED <<ledger, now, resp, last_write, qlog, feeVars, quote, store_up>>

\* The worker has answered and takes the next request.
Reset(w) ==
    /\ conn[w].pc = "done"
    /\ conn' = [conn EXCEPT ![w] = [IdleConn EXCEPT !.faults = conn[w].faults]]
    /\ UNCHANGED <<ledger, now, resp, last_write, qlog, feeVars, quote, store_up>>

\* ------------------------------------------------------- the quote
\* payment_methods of create_checkout, in its order.
payment_methods ==
    << <<"Razorpay", "debit_card">>, <<"Razorpay", "credit_card">>,
       <<"Razorpay", "netbanking">>, <<"Razorpay", "upi">>,
       <<"PayU", "debit_card">>, <<"PayU", "credit_card">>, <<"PayU", "upi">>,
       <<"Cashfree", "debit_card">>, <<"Cashfree", "upi">> >>

\* The rows the success-rate query aggregates: the pair's rows created within
\* the last 30 days.
WindowRowsFinished(db, t, gateway, payment_mode) ==
    {i \in DOMAIN db : /\ db[i].gateway = gateway
                       /\ db[i].payment_mode = payment_mode
                       /\ db[i].status # "pending"
                       /\ db[i].created_at >= t - WINDOW}

WindowRows(db, t, gateway, payment_mode) ==
    {i \in DOMAIN db : /\ db[i].gateway = gateway
                       /\ db[i].payment_mode = payment_mode
                       /\ db[i].created_at >= t - WINDOW}

\* SUM(CASE WHEN status = 'success' THEN 1 ELSE 0 END) / COUNT(*) * 100: the
\* store computes in exact decimals and returns the value with 4 fractional
\* digits, rounded half up (33.3333 for 1 of 3).  NULL (no row) gives 95.0.
SuccessRateOf(db, rows) ==
    LET total == Cardinality(rows)
        successful == Cardinality({i \in rows : db[i].status = "success"})
    IN  IF total = 0 THEN DEFAULT_RATE
        ELSE (2 * RATE_SCALE * successful + total) \div (2 * total)

\* round(success_rate, 2), in hundredths of a percent (a tie goes to the even
\* hundredth).
RoundRate(success_rate) ==
    LET floor_h == success_rate \div 100
        rem     == success_rate % 100
    IN  IF rem > 50 THEN floor_h + 1
        ELSE IF rem = 50 THEN (IF floor_h % 2 = 0 THEN floor_h ELSE floor_h + 1)
        ELSE floor_h

\* The with block of get_success_rate_from_db: one SELECT.
SuccessRateBodyPurging(db, t, gateway, payment_mode) ==
    LET InWindow(row) == row.created_at >= t - WINDOW
    IN  [db |-> SelectSeq(db, InWindow), raised |-> FALSE, commit_called |-> FALSE,
         committed |-> db,
         success_rate |-> SuccessRateOf(db, WindowRows(db, t, gateway, payment_mode))]

SuccessRateBody(db, t, gateway, payment_mode) ==
    IF store_up
    THEN [db |-> db, raised |-> FALSE, commit_called |-> FALSE, committed |-> db,
          success_rate |-> SuccessRateOf(db, WindowRows(db, t, gateway, payment_mode))]
    ELSE ConnectFailed(db)

\* get_success_rate_from_db(gateway, payment_mode): the rate, and the store
\* after the lookup's connection scope.  An exception of the scope is caught
\* and answered with 95.0.
get_success_rate_from_dbRaising(db, t, gateway, payment_mode) ==
    LET body == SuccessRateBody(db, t, gateway, payment_mode)
    IN  [db |-> get_db_connection(db, body),
         success_rate |-> IF body.raised THEN 0 ELSE body.success_rate]

get_success_rate_from_db(db, t, gateway, payment_mode) ==
    LET body == SuccessRateBody(db, t, gateway, payment_mode)
    IN  [db |-> get_db_connection(db, body),
         success_rate |-> IF body.raised THEN DEFAULT_RATE ELSE body.success_rate]

\* One call of get_success_rate_from_db(gateway, payment_mode), on its own.
SuccessRateLookup(gateway, payment_mode) ==
    LET looked == get_success_rate_from_db(ledger, now, gateway, payment_mode)
    IN  /\ ledger' = looked.db
        /\ resp' = [op |-> "success_rate", code |-> 200, tid |-> EMPTY, detail |-> "",
                    body |-> [gateway |-> gateway, payment_mode |-> payment_mode,
                              success_rate |-> looked.success_rate]]
        /\ UNCHANGED <<now, last_write, qlog, feeVars, conn, quote, store_up>>

\* One pass of the first loop of create_checkout: the option of a method.
PaymentOption(amount, method, success_rate) ==
    LET fee == calculate_fee(amount, method[2])
    IN  [ gateway        |-> method[1],
          payment_mode   |-> method[2],
          base_amount    |-> amount,
          fee_amount     |-> Round2(fee.fee_amount),
          total_amount   |-> Round2(fee.total_amount),
          fee_percentage |-> fee.fee_percentage,
          success_rate   |-> RoundRate(success_rate) ]

\* The first loop: [db, payment_options] after the methods from i on.
RECURSIVE BuildOptions(_, _, _, _, _)
BuildOptions(db, t, amount, i, payment_options) ==
    IF i > Len(payment_methods) THEN [db |-> db, payment_options |-> payment_options]
    ELSE LET method == payment_methods[i]
             looked == get_success_rate_from_db(db, t, method[1], method[2])
         IN  BuildOptions(looked.db, t, amount, i + 1,
                          Append(payment_options,
                                 PaymentOption(amount, method, looked.success_rate)))

\* a/b > c/d for 0 <= a < b and 0 <= c < d, by continued fractions (no product
\* of the two denominators is formed).
RECURSIVE FracGT(_, _, _, _)
FracGT(a, b, c, d) ==
    IF a = 0 THEN FALSE
    ELSE IF c = 0 THEN TRUE
    ELSE IF b \div a # d \div c THEN b \div a < d \div c
    ELSE FracGT(d % c, c, b % a, a)

\* score = (1 / option.total_amount * 1000) + success_rate, times 10000: the
\* integer part and the fraction num/den.  total_amount (cents) is not 0.
Score(total_amount, success_rate) ==
    [ int |-> (SCORE_SCALE \div total_amount) + success_rate,
      num |-> SCORE_SCALE % total_amount,
      den |-> total_amount ]

\* best_score = -1
InitialBestScore == [int |-> 0 - 10000, num |-> 0, den |-> 1]
NoOption == [none |-> TRUE]

\* if score > best_score
ScoreBeatsOrTies(score, best_score) ==
    \/ score.int > best_score.int
    \/ score.int = best_score.int
        /\ ~FracGT(best_score.num, best_score.den, score.num, score.den)

ScoreBeatsByClock(score, best_score) ==
    \/ score.int > best_score.int
    \/ score.int = best_score.int
        /\ FracGT(score.num, score.den, best_score.num, best_score.den)
    \/ score = best_score /\ now % 2 = 1

ScoreBeats(score, best_score) ==
    \/ score.int > best_score.int
    \/ score.int = best_score.int
        /\ FracGT(score.num, score.den, best_score.num, best_score.den)

\* The second loop: [db, best_option, best_score, raised] after the options from
\* i on; 1 / option.total_amount raises ZeroDivisionError for a total of 0.
RECURSIVE ScanBest(_, _, _, _, _, _)
ScanBest(db, t, payment_options, i, best_option, best_score) ==
    IF i > Len(payment_options)
    THEN [db |-> db, best_option |-> best_option, raised |-> FALSE]
    ELSE LET option == payment_options[i]
             looked == get_success_rate_from_db(db, t, option.gateway, option.payment_mode)
         IN  IF option.total_amount = 0
             THEN [db |-> looked.db, best_option |-> best_option, raised |-> TRUE]
             ELSE LET score == Score(option.total_amount, looked.success_rate)
                  IN  IF ScoreBeats(score, best_score)
                      THEN ScanBest(looked.db, t, payment_options, i + 1, option, score)
                      ELSE ScanBest(looked.db, t, payment_options, i + 1,
                                    best_option, best_score)

\* POST /api/checkout.  An exception of the handler is answered with status 500.
\* logged: whether the quote history records this quote.
CreateCheckout(amount, logged) ==
    LET built == BuildOptions(ledger, now, amount, 1, <<>>)
        best  == ScanBest(built.db, now, built.payment_options, 1,
                          NoOption, InitialBestScore)
        answer == IF best.raised
                  THEN [op |-> "checkout", code |-> 500, tid |-> EMPTY,
                        detail |-> "ZeroDivisionError", body |-> NoBody,
                        amount |-> amount]
                  ELSE [op |-> "checkout", code |-> 200, tid |-> EMPTY,
                        detail |-> "",
                        body |-> [original_amount    |-> amount,
                                  payment_options    |-> built.payment_options,
                                  recommended_option |-> best.best_option],
                        amount |-> amount]
    IN  /\ ledger' = best.db
        /\ resp' = answer
        /\ qlog' = IF logged
                   THEN [older |-> qlog.newer, newer |-> answer,
                         same_ledger |-> ~qlog.dirty, dirty |-> best.db # ledger]
                   ELSE qlog
        /\ UNCHANGED <<now, last_write, feeVars, conn, quote, store_up>>

\* GET /api/calculate-fee
GetFee(amount, payment_mode) ==
    LET fee == calculate_fee(amount, payment_mode)
    IN  /\ resp' = [op |-> "get_fee", code |-> 200, tid |-> EMPTY, detail |-> "",
                    body |-> [amount         |-> amount,
                              payment_mode   |-> payment_mode,
                              fee_amount     |-> Round2(fee.fee_amount),
                              total_amount   |-> Round2(fee.total_amount),
                              fee_percentage |-> fee.fee_percentage]]
        /\ UNCHANGED <<ledger, now, last_write, qlog, feeVars, conn, quote, store_up>>

\* ------------------------------------ create_checkout, lookup by lookup
\* A quote makes 18 lookups, each in a connection scope of its own; requests
\* of other clients are served between them.  started_on (history) is the
\* ledger the quote started on.
IdleQuote ==
    [ pc |-> "idle", amount |-> 0, i |-> 1, payment_options |-> <<>>,
      best_option |-> NoOption, best_score |-> InitialBestScore,
      started_on |-> <<>> ]

\* The request arrives: payment_options = [].
QuoteBegin(amount) ==
    /\ quote.pc = "idle"
    /\ quote' = [IdleQuote EXCEPT !.pc = "build", !.amount = amount,
                                  !.started_on = ledger]
    /\ UNCHANGED <<ledger, now, resp, last_write, qlog, feeVars, conn, store_up>>

\* One pass of the first loop; after the last pass best_option = None and
\* best_score = -1 are set.
QuoteBuild ==
    LET method == payment_methods[quote.i]
        looked == get_success_rate_from_db(ledger, now, method[1], method[2])
    IN  /\ quote.pc = "build"
        /\ ledger' = looked.db
        /\ quote' = [quote EXCEPT
                !.payment_options =
                    Append(@, PaymentOption(quote.amount, method, looked.success_rate)),
                !.i = IF quote.i = Len(payment_methods) THEN 1 ELSE @ + 1,
                !.pc = IF quote.i = Len(payment_methods) THEN "score" ELSE @]
        /\ UNCHANGED <<now, resp, last_write, qlog, feeVars, conn, store_up>>

\* One pass of the second loop; 1 / option.total_amount raises
\* ZeroDivisionError for a total of 0.
QuoteScore ==
    LET option == quote.payment_options[quote.i]
        looked == get_success_rate_from_db(ledger, now, option.gateway,
                                           option.payment_mode)
        score  == Score(option.total_amount, looked.success_rate)
        last   == quote.i = Len(quote.payment_options)
    IN  /\ quote.pc = "score"
        /\ ledger' = looked.db
        /\ quote' =
              IF option.total_amount = 0 THEN [quote EXCEPT !.pc = "raised"]
              ELSE IF ScoreBeats(score, quote.best_score)
              THEN [quote EXCEPT !.best_option = option, !.best_score = score,
                                 !.i = @ + 1, !.pc = IF last THEN "return" ELSE @]
              ELSE [quote EXCEPT !.i = @ + 1, !.pc = IF last THEN "return" ELSE @]
        /\ UNCHANGED <<now, resp, last_write, qlog, feeVars, conn, store_up>>

\* The CheckoutResponse, or the answer 500 to the exception.
QuoteReturn ==
    /\ quote.pc \in {"return", "raised"}
    /\ resp' = IF quote.pc = "raised"
               THEN [op |-> "checkout", code |-> 500, tid |-> EMPTY,
                     detail |-> "ZeroDivisionError", body |-> NoBody,
                     amount |-> quote.amount]
               ELSE [op |-> "checkout", code |-> 200, tid |-> EMPTY, detail |-> "",
                     body |-> [original_amount    |-> quote.amount,
                               payment_options    |-> quote.payment_options,
                               recommended_option |-> quote.best_option],
                     amount |-> quote.amount]
    /\ quote' = IdleQuote
    /\ UNCHANGED <<ledger, now, last_write, qlog, feeVars, conn, store_up>>

\* ------------------------------------------------- the fee specification
BracketEdges == {0, 2000000, 10000000, 25000000, 50000000}
FeeAmounts == {e + d : e \in BracketEdges, d \in (0 - FeeSpread)..FeeSpread}
              \cup {1500000, 9000000}
ModeInputs == KnownModes \cup {"wallet", "UPI", ""}

Zero == [whole |-> 0, frac |-> 0]
NoFee == [fee_amount |-> Zero, total_amount |-> Zero, fee_percentage |-> 0]

\* The store after provisioning, and no request made yet.
NoQuote == [op |-> "none", code |-> 0]
InitLedger ==
    /\ ledger = <<>>
    /\ now = 0
    /\ resp = [op |-> "none", code |-> 0, tid |-> EMPTY, detail |-> "", body |-> NoBody]
    /\ last_write = [op |-> "none", tid |-> EMPTY, code |-> 0, req |-> NoBody, at |-> 0]
    /\ qlog = [older |-> NoQuote, newer |-> NoQuote, same_ledger |-> FALSE,
               dirty |-> FALSE]
    /\ conn = [w \in Workers |-> IdleConn]
    /\ quote = IdleQuote
    /\ store_up = TRUE

InitFee ==
    /\ fee_amount_in \in FeeAmounts
    /\ fee_mode_in \in ModeInputs
    /\ fee_result = NoFee
    /\ fee_pc = "call"
    /\ InitLedger

CalculateFee ==
    /\ fee_pc = "call"
    /\ fee_pc' = "returned"
    /\ fee_result' = calculate_fee(fee_amount_in, fee_mode_in)
    /\ UNCHANGED <<fee_amount_in, fee_mode_in, ledger, now, resp, last_write, qlog,
                   conn, quote, store_up>>

NextFee == CalculateFee

SpecFee == InitFee /\ [][NextFee]_vars

\* -------------------------------------------- the ledger specification
Tokens == 1..MaxTokens

\* Two options as a client takes them from a quote for 1500 and for 9000.
ChosenOptions ==
    { [gateway |-> "Razorpay", payment_mode |-> "credit_card",
       base_amount |-> 1500000, fee_amount |-> 1500, total_amount |-> 1501500],
      [gateway |-> "PayU", payment_mode |-> "upi",
       base_amount |-> 9000000, fee_amount |-> 0, total_amount |-> 9000000] }

TransactionRequest(transaction_id, option, status) ==
    [ transaction_id |-> transaction_id,
      gateway        |-> option.gateway,
      payment_mode   |-> option.payment_mode,
      base_amount    |-> option.base_amount,
      fee_amount     |-> option.fee_amount,
      total_amount   |-> option.total_amount,
      status         |-> status ]

LedgerRequests ==
    { TransactionRequest(id, o, "pending") : id \in Tokens \cup {EMPTY}, o \in ChosenOptions }
    \cup { TransactionRequest(id, o, "success") :
             id \in Tokens, o \in {c \in ChosenOptions : c.gateway = "PayU"} }

\* update_transaction's (status, gateway_transaction_id, gateway_response): the
\* demo client's full update, a status alone, a gateway reference alone, nothing.
UpdateInputs ==
    { <<"success", "gw_ref", "captured">>, <<"failed", NULL, NULL>>,
      <<"", "gw_ref", NULL>>, <<"", NULL, NULL>> }

InitIdle ==
    /\ fee_amount_in = 0
    /\ fee_mode_in = "upi"
    /\ fee_result = NoFee
    /\ fee_pc = "call"

Init == InitIdle /\ InitLedger

Next ==
    \/ \E t \in LedgerRequests, generated \in Tokens : CreateTransaction(t, generated)
    \/ \E id \in Tokens, u \in UpdateInputs : UpdateTransaction(id, u[1], u[2], u[3])
    \/ \E id \in Tokens : GetTransaction(id)
    \/ Tick(0..LedgerMaxTime)

Spec == Init /\ [][Next]_vars

\* --------------------------------------------- the quote specification
QuoteEdges == {0, 2000000}
\* Whole-cent amounts at and above the bracket edges, the demo's 1500, and the
\* sub-cent amount 0.004.
QuoteAmounts ==
    {e + 10 * c : e \in QuoteEdges, c \in 0..QuoteSpread} \cup {1500000, 4}

QuoteOptions ==
    { [gateway |-> "Razorpay", payment_mode |-> "upi",
       base_amount |-> 1500000, fee_amount |-> 0, total_amount |-> 1500000],
      [gateway |-> "PayU", payment_mode |-> "upi",
       base_amount |-> 1500000, fee_amount |-> 0, total_amount |-> 1500000],
      [gateway |-> "Razorpay", payment_mode |-> "debit_card",
       base_amount |-> 1500000, fee_amount |-> 0, total_amount |-> 1500000] }

QuoteRequests ==
    { TransactionRequest(id, o, st) :
        id \in Tokens, o \in QuoteOptions, st \in {"failed", "success"} }

\* The instants of the quote specifications: the first seconds, and the seconds
\* at which a row created then leaves the 30-day window.
QuoteInstants == (0..QuoteSlack) \cup (WINDOW..(WINDOW + QuoteSlack))

\* The clients of this specification create transactions under fresh ids.
NextQuote ==
    \/ \E amount \in QuoteAmounts : CreateCheckout(amount, FALSE)
    \/ \E amount \in {4, 2000010}, m \in {"debit_card", "wallet"} : GetFee(amount, m)
    \/ \E t \in QuoteRequests :
            /\ ~UniqueKeyViolation(ledger, t.transaction_id)
            /\ CreateTransaction(t, t.transaction_id)
    \/ Tick(QuoteInstants)

SpecQuote == Init /\ [][NextQuote]_vars

\* ------------------------------------- the interleaved-quote specification
\* Transactions of the pairs a quote for 1500 ranks first.
RaceRequests ==
    { TransactionRequest(id, o, st) :
        id \in Tokens,
        o \in {q \in QuoteOptions : q.gateway = "Razorpay"},
        st \in {"failed", "success"} }

\* One client asks for quotes, which the server computes lookup by lookup;
\* other clients create transactions under fresh ids meanwhile.
NextRace ==
    \/ \E amount \in {0, 1500000, 2000010} : QuoteBegin(amount)
    \/ QuoteBuild
    \/ QuoteScore
    \/ QuoteReturn
    \/ \E t \in RaceRequests :
            /\ ~UniqueKeyViolation(ledger, t.transaction_id)
            /\ CreateTransaction(t, t.transaction_id)

SpecRace == Init /\ [][NextRace]_vars

\* ------------------------------------- the repeated-quote specification
\* Quotes for two amounts, recorded in the quote history, around the creation
\* of one transaction and the passing of the window.
RequoteRequests ==
    { TransactionRequest(1, o, st) :
        o \in {c \in QuoteOptions : c.gateway = "Razorpay"}, st \in {"failed", "success"} }

NextRequote ==
    \/ \E amount \in {1500000, 2000010} : CreateCheckout(amount, TRUE)
    \/ \E t \in RequoteRequests :
            /\ ~UniqueKeyViolation(ledger, t.transaction_id)
            /\ CreateTransaction(t, t.transaction_id)
    \/ Tick(QuoteInstants)

SpecRequote == Init /\ [][NextRequote]_vars

\* ------------------------------------- the success-rate specification
\* Up to MaxRows transactions of two upi pairs, created under the ids 1, 2, ...
\* in turn, and lookups of the rate of a pair as time passes.
RateRequests ==
    { TransactionRequest(id, o, st) :
        id \in 1..MaxRows,
        o \in {c \in QuoteOptions : c.gateway = "Razorpay" /\ c.payment_mode = "upi"},
        st \in {"pending", "success", "failed"} }
    \cup { TransactionRequest(id, o, "success") :
        id \in 1..MaxRows,
        o \in {c \in QuoteOptions : c.gateway = "PayU"} }

NextRate ==
    \/ \E t \in RateRequests :
            /\ t.transaction_id = Len(ledger) + 1
            /\ CreateTransaction(t, t.transaction_id)
    \/ \E method \in {<<"Razorpay", "upi">>, <<"Cashfree", "upi">>} :
            SuccessRateLookup(method[1], method[2])
    \/ Tick(QuoteInstants)

SpecRate == Init /\ [][NextRate]_vars

\* ------------------------------------------- the listing specification
\* Up to MaxRows transactions created under the ids 1, 2, ... in turn, as
\* pending or already successful, and listings of them.
ListRequests ==
    { TransactionRequest(id, o, st) :
        id \in 1..MaxRows,
        o \in {c \in ChosenOptions : c.gateway = "PayU"},
        st \in {"pending", "success"} }

ListLimits == {0 - 1, 0, 1, 2, 50}

NextList ==
    \/ \E t \in ListRequests :
            /\ t.transaction_id = Len(ledger) + 1
            /\ CreateTransaction(t, t.transaction_id)
    \/ \E status \in {NULL, "", "success"}, limit \in ListLimits :
            ListTransactions(status, limit)
    \/ Tick(0..LedgerMaxTime)

SpecList == Init /\ [][NextList]_vars

\* -------------------------------------------- the outage specification
\* The store becomes unreachable and reachable again while the handlers are
\* called.
StoreFails ==
    /\ store_up
    /\ store_up' = FALSE
    /\ UNCHANGED <<ledger, now, resp, last_write, qlog, feeVars, conn, quote>>

StoreRecovers ==
    /\ ~store_up
    /\ store_up' = TRUE
    /\ UNCHANGED <<ledger, now, resp, last_write, qlog, feeVars, conn, quote>>

OutageRequests ==
    { TransactionRequest(id, o, "success") :
        id \in Tokens, o \in {c \in QuoteOptions : c.payment_mode = "upi"} }

NextOutage ==
    \/ \E t \in OutageRequests :
            /\ t.transaction_id = Len(ledger) + 1
            /\ CreateTransaction(t, t.transaction_id)
    \/ UpdateTransaction(1, "failed", NULL, NULL)
    \/ GetTransaction(1)
    \/ ListTransactions(NULL, 50)
    \/ \E amount \in {0, 1500000} : CreateCheckout(amount, FALSE)
    \/ SuccessRateLookup("Razorpay", "upi")
    \/ StoreFails
    \/ StoreRecovers

SpecOutage == Init /\ [][NextOutage]_vars

\* --------------------------------------- the concurrent specification
\* Two workers serve create_transaction requests statement by statement, each
\* worker with its own option and with ids its clients chose; updates of
\* committed rows run in between.  An UPDATE of a key that an uncommitted row
\* holds waits.
WorkerOption(w) ==
    CHOOSE o \in ChosenOptions : (o.gateway = "Razorpay") <=> (w = "w1")

NextConc ==
    \/ \E w \in Workers, id \in Tokens :
            Begin(w, TransactionRequest(id, WorkerOption(w), "pending"), id)
    \/ \E w \in Workers : Insert(w)
    \/ \E w \in Workers : Select(w)
    \/ \E w \in Workers : Commit(w)
    \/ \E w \in Workers : SelectFails(w)
    \/ \E w \in Workers : CommitFails(w)
    \/ \E w \in Workers, id \in Tokens :
            ConnectFails(w, TransactionRequest(id, WorkerOption(w), "pending"))
    \/ \E w \in Workers : Reset(w)
    \/ \E id \in Tokens :
            /\ ~KeyLocked("none", id)
            /\ UpdateTransaction(id, "success", NULL, NULL)

SpecConc == Init /\ [][NextConc]_vars

\* --------------------------------------------------- fee engine claims
\* The indices of the ranges of the mode's schedule that hold the amount.
MatchingRanges(amount, payment_mode) ==
    {i \in DOMAIN ConfigFor(payment_mode) : InRange(ConfigFor(payment_mode)[i], amount)}

\* The bracket table of the design, section 4.1, in the model's units.
TablePercentage(amount, payment_mode) ==
    CASE payment_mode = "debit_card"  -> IF amount <= 2000000 THEN 0 ELSE 10
      [] payment_mode = "credit_card" -> IF amount <= 25000000 THEN 2 ELSE 10
      [] payment_mode = "netbanking"  -> IF amount <= 10000000 THEN 0
                                         ELSE IF amount <= 50000000 THEN 15 ELSE 20
      [] OTHER -> 0

FeeArithmetic ==
    /\ fee_result.fee_amount.whole * FRAC + fee_result.fee_amount.frac
           = fee_amount_in * fee_result.fee_percentage
    /\ fee_result.fee_amount.frac \in 0..(FRAC - 1)
    /\ fee_result.total_amount.whole = fee_amount_in + fee_result.fee_amount.whole
    /\ fee_result.total_amount.frac = fee_result.fee_amount.frac

\* C1 (as claimed): for every amount >= 0 and every mode, calculate_fee selects
\* exactly one bracket of the mode's schedule, returns the percentage the
\* authoritative table gives, fee_amount = amount * percentage / 100 and
\* total_amount = amount + fee_amount.
C1_ExactlyOneBracket ==
    (fee_pc = "returned" /\ fee_amount_in >= 0) =>
        /\ Cardinality(MatchingRanges(fee_amount_in, fee_mode_in)) = 1
        /\ fee_result.fee_percentage = TablePercentage(fee_amount_in, fee_mode_in)
        /\ FeeArithmetic

\* C2: at a bracket boundary B calculate_fee returns the lower bracket's
\* percentage, and at B + 0.01 the higher bracket's.
Boundaries ==
    { <<"debit_card", 2000000, 0, 10>>, <<"credit_card", 25000000, 2, 10>>,
      <<"netbanking", 10000000, 0, 15>>, <<"netbanking", 50000000, 15, 20>> }

C2_BoundaryPercentages ==
    fee_pc = "returned" =>
        \A b \in Boundaries :
            fee_mode_in = b[1] =>
                /\ (fee_amount_in = b[2] => fee_result.fee_percentage = b[3])
                /\ (fee_amount_in = b[2] + 10 => fee_result.fee_percentage = b[4])

C2_Witness ==
    /\ fee_pc = "returned"
    /\ fee_mode_in = "debit_card"
    /\ fee_amount_in = 2000010
    /\ fee_result.fee_percentage = 10
    /\ fee_result.fee_amount = [whole |-> 10000, frac |-> 100]

\* C3: for a mode that is none of the four known ones calculate_fee returns what
\* it returns for "upi": percentage 0, fee 0 and total = amount.
C3_UnknownModeIsUpi ==
    (fee_pc = "returned" /\ fee_mode_in \notin KnownModes) =>
        /\ fee_result = calculate_fee(fee_amount_in, "upi")
        /\ fee_result.fee_percentage = 0
        /\ fee_result.fee_amount = Zero
        /\ fee_result.total_amount = [whole |-> fee_amount_in, frac |-> 0]

C3_Witness ==
    /\ fee_pc = "returned"
    /\ fee_mode_in = "wallet"
    /\ fee_amount_in = 1500000
    /\ fee_result.total_amount = [whole |-> 1500000, frac |-> 0]

\* ---------------------------------------------------------- quote claims
IsQuote(r) == r.op = "checkout"
Returned(r) == r.op = "checkout" /\ r.code = 200

\* a > b for two scores, exactly.
ScoreGreater(a, b) ==
    \/ a.int > b.int
    \/ a.int = b.int /\ FracGT(a.num, a.den, b.num, b.den)

\* The pair's success rate in store db at time t.
RateAt(db, t, method) == SuccessRateOf(db, WindowRows(db, t, method[1], method[2]))

\* The score of catalog entry i for the amount: 1000 / total_amount + success_rate
\* with the option's total (the Fee Engine's total, rounded to 2 digits).
EntryScore(db, t, amount, i) ==
    Score(Round2(calculate_fee(amount, payment_methods[i][2]).total_amount),
          RateAt(db, t, payment_methods[i]))

\* The first catalog entry whose score no entry exceeds.
BestEntry(db, t, amount) ==
    CHOOSE k \in DOMAIN payment_methods :
        /\ \A j \in DOMAIN payment_methods :
              ~ScoreGreater(EntryScore(db, t, amount, j), EntryScore(db, t, amount, k))
        /\ \A j \in 1..(k - 1) :
              ScoreGreater(EntryScore(db, t, amount, k), EntryScore(db, t, amount, j))

OptionsAsCatalog(r) ==
    /\ Len(r.body.payment_options) = Len(payment_methods)
    /\ Len(payment_methods) = 9
    /\ \A i \in DOMAIN payment_methods :
          LET option == r.body.payment_options[i]
              fee == calculate_fee(r.amount, payment_methods[i][2])
          IN  /\ option.gateway = payment_methods[i][1]
              /\ option.payment_mode = payment_methods[i][2]
              /\ option.base_amount = r.amount
              /\ option.fee_amount = Round2(fee.fee_amount)
              /\ option.total_amount = Round2(fee.total_amount)
              /\ option.fee_percentage = fee.fee_percentage
              /\ (r.amount = 1500000 /\ option.payment_mode \in {"upi", "debit_card"}
                    => option.fee_amount = 0)

\* C5 (as claimed): for every amount the quote returns exactly 9 options, one per
\* catalog pair in catalog order, each with the fee and total of calculate_fee.
C5_NineOptions ==
    IsQuote(resp) => (resp.code = 200 /\ OptionsAsCatalog(resp))

\* C5, for the quotes that return: the options are the catalog's.
C5_NineOptionsWhenReturned ==
    Returned(resp) => OptionsAsCatalog(resp)

SameRates(a, b) ==
    /\ Len(a.body.payment_options) = Len(b.body.payment_options)
    /\ \A i \in DOMAIN a.body.payment_options :
          a.body.payment_options[i].success_rate = b.body.payment_options[i].success_rate

C7_ReadOnly ==
    [][ (resp'.op \in {"checkout", "get_fee"} /\ resp' # resp) => ledger' = ledger ]_vars

\* A quote returned with two transactions in the ledger.
C7_Witness ==
    /\ Returned(resp)
    /\ Len(ledger) = 2
    /\ \E i \in DOMAIN resp.body.payment_options :
          resp.body.payment_options[i].success_rate # RoundRate(DEFAULT_RATE)

\* --------------------------------------------------------- ledger claims
GetAfter(op) ==
    /\ resp.op = "get"
    /\ last_write.op = op
    /\ last_write.code = 200
    /\ resp.tid = last_write.tid

SameAsSubmitted(body, req) ==
    /\ body.gateway = req.gateway
    /\ body.payment_mode = req.payment_mode
    /\ body.base_amount = req.base_amount
    /\ body.fee_amount = req.fee_amount
    /\ body.total_amount = req.total_amount

\* C8 (as claimed): get_transaction after a successful create_transaction
\* returns the submitted gateway, payment_mode and amounts, with status "pending".
C8_RoundTripPending ==
    GetAfter("create") =>
        /\ resp.code = 200
        /\ SameAsSubmitted(resp.body, last_write.req)
        /\ resp.body.status = "pending"

\* C8 (amended): get_transaction after a successful create_transaction returns
\* the submitted gateway, payment_mode and amounts, with the submitted status
\* ("pending" when the request gives none).
C8_RoundTripSubmitted ==
    GetAfter("create") =>
        /\ resp.code = 200
        /\ resp.body.transaction_id = last_write.tid
        /\ SameAsSubmitted(resp.body, last_write.req)
        /\ resp.body.status = last_write.req.status

C8_Witness ==
    /\ GetAfter("create")
    /\ resp.code = 200
    /\ resp.body.gateway = "Razorpay"
    /\ resp.body.fee_amount = 1500
    /\ resp.body.total_amount = 1501500
    /\ resp.body.status = "pending"
    /\ Len(ledger) = 2

C10_DuplicateIsConflict ==
    [][ (resp'.op = "create" /\ resp' # resp
            /\ last_write'.req.transaction_id # EMPTY
            /\ UniqueKeyViolation(ledger, last_write'.req.transaction_id))
        => (resp'.code = 409 /\ ledger' = ledger) ]_vars

\* C10, the part the code keeps: a create_transaction under an id that is in
\* the ledger fails and leaves the ledger as it was.
C10_DuplicateLeavesLedger ==
    [][ (resp'.op = "create" /\ resp' # resp
            /\ UniqueKeyViolation(ledger, resp'.tid))
        => (resp'.code # 200 /\ ledger' = ledger) ]_vars

\* C11: no two rows of the ledger have the same transaction_id, whatever the
\* interleaving of the statements of create_transaction requests and of updates.
C11_UniqueTransactionId ==
    \A i, j \in DOMAIN ledger :
        ledger[i].transaction_id = ledger[j].transaction_id => i = j

\* Two workers were given the same transaction_id; one row of it is in the ledger.
C11_Witness ==
    /\ conn["w1"].pc = "done" /\ conn["w2"].pc = "done"
    /\ conn["w1"].transaction_id = conn["w2"].transaction_id
    /\ conn["w1"].response.code = 500
    /\ conn["w2"].response.code = 200
    /\ Len(ledger) = 2

\* A step that served an update_transaction request.
UpdateStep ==
    /\ resp'.op = "update" /\ last_write'.op = "update"
    /\ (last_write' # last_write \/ resp' # resp)

\* C12 (as claimed): get_transaction and update_transaction for a
\* transaction_id that is not in the ledger fail with NotFound (404), not with
\* the storage failure's 500, and leave the ledger as it was.
C12_MissingIsNotFound ==
    [][ (resp'.op \in {"get", "update"} /\ resp' # resp
            /\ ~UniqueKeyViolation(ledger, resp'.tid))
        => (resp'.code = 404 /\ ledger' = ledger) ]_vars

\* C12, the part the code keeps: the request fails and the ledger is as it was.
C12_MissingLeavesLedger ==
    [][ (resp'.op \in {"get", "update"} /\ resp' # resp
            /\ ~UniqueKeyViolation(ledger, resp'.tid))
        => (resp'.code # 200 /\ ledger' = ledger) ]_vars

NoneSupplied(req) ==
    ~Truthy(req.status) /\ ~Truthy(req.gateway_transaction_id)
        /\ ~Truthy(req.gateway_response)

\* C13 (as claimed): update_transaction with none of status,
\* gateway_transaction_id and gateway_response supplied fails with BadRequest
\* (400) and leaves every field of every transaction as it was.
C13_NoFieldsIsBadRequest ==
    [][ (UpdateStep /\ NoneSupplied(last_write'.req))
        => (resp'.code = 400 /\ ledger' = ledger) ]_vars

\* C13, the part the code keeps: the request fails and the ledger is as it was.
C13_NoFieldsLeavesLedger ==
    [][ (UpdateStep /\ NoneSupplied(last_write'.req))
        => (resp'.code # 200 /\ ledger' = ledger) ]_vars

\* C14 (as claimed): once a transaction's status is success or failed, no
\* later update_transaction changes it.
C14_TerminalStatus ==
    [][ \A i \in DOMAIN ledger :
            ledger[i].status \in {"success", "failed"}
                => (i \in DOMAIN ledger' /\ ledger'[i].status = ledger[i].status) ]_vars

\* ---------------------------------------------------- success-rate claims
\* The pair's transactions of the last 30 days at time t, whatever their status.
PairInWindow(db, t, gateway, payment_mode) ==
    {i \in DOMAIN db : /\ <<db[i].gateway, db[i].payment_mode>> = <<gateway, payment_mode>>
                       /\ t - db[i].created_at <= WINDOW}

Successes(db, rows) == Cardinality({i \in rows : db[i].status = "success"})

IsLookup == resp'.op = "success_rate" /\ resp' # resp

\* C15 (as claimed): the success rate of a pair is exactly 95.0 when the pair
\* has no transaction in the window, is exactly 100 * successful / total
\* otherwise, and lies in [0, 100].
C15_ExactRatio ==
    [][ IsLookup =>
          LET rows == PairInWindow(ledger, now, resp'.body.gateway, resp'.body.payment_mode)
              rate == resp'.body.success_rate
          IN  /\ rows = {} => rate = DEFAULT_RATE
              /\ rows # {} =>
                    rate * Cardinality(rows) = RATE_SCALE * Successes(ledger, rows)
              /\ rate \in 0..RATE_SCALE ]_vars

\* C15 (amended): the success rate of a pair is exactly 95.0 when the pair has
\* no transaction in the window, is 100 * successful / total rounded to 4
\* fractional digits otherwise, and lies in [0, 100].
C15_RoundedRatio ==
    [][ IsLookup =>
          LET rows == PairInWindow(ledger, now, resp'.body.gateway, resp'.body.payment_mode)
              rate == resp'.body.success_rate
              diff == rate * Cardinality(rows) - RATE_SCALE * Successes(ledger, rows)
          IN  /\ rows = {} => rate = DEFAULT_RATE
              /\ rows # {} => (2 * diff <= Cardinality(rows)
                                /\ 0 - 2 * diff < Cardinality(rows))
              /\ rate \in 0..RATE_SCALE ]_vars

\* A lookup found a success among a pending and a failed transaction of the pair.
C15_Witness ==
    /\ resp.op = "success_rate"
    /\ resp.body.success_rate = 333333
    /\ Len(ledger) = 3
    /\ \E i \in DOMAIN ledger : ledger[i].status = "pending"

\* ------------------------------------------------ claims on interleavings
\* Worker w ends its request in this step.
Ends(w) == conn[w].pc # "done" /\ conn'[w].pc = "done"

\* The ledger after the step is the ledger before it and the row worker w's
\* request submitted.
CommittedRowOf(w) ==
    /\ Len(ledger') = Len(ledger) + 1
    /\ SubSeq(ledger', 1, Len(ledger)) = ledger
    /\ LET row == ledger'[Len(ledger')]
       IN  /\ row.transaction_id = conn[w].transaction_id
           /\ SameAsSubmitted(row, conn[w].transaction)
           /\ row.status = conn[w].transaction.status
           /\ row.created_at = conn[w].current_time
           /\ row.updated_at = conn[w].current_time

\* The ledger after the step is the ledger before it with the update's values
\* in the row of its transaction_id.
CommittedUpdate ==
    /\ Len(ledger') = Len(ledger)
    /\ \E i \in DOMAIN ledger :
          /\ ledger[i].transaction_id = resp'.tid
          /\ ledger'[i].status = last_write'.req.status
          /\ ledger'[i].updated_at = now
          /\ \A j \in DOMAIN ledger \ {i} : ledger'[j] = ledger[j]

Unfaulted(w) ==
    conn[w].response.detail \notin
        {"OperationalError: lost connection", "OperationalError: can't connect"}

\* The ledger holds worker w's transaction with the fields its request submitted.
HoldsOwn(w) ==
    \E i \in DOMAIN ledger :
        /\ ledger[i].transaction_id = conn[w].transaction_id
        /\ SameAsSubmitted(ledger[i], conn[w].transaction)
        /\ ledger[i].created_at = conn[w].current_time
        /\ conn[w].response.body.gateway = conn[w].transaction.gateway
        /\ conn[w].response.body.transaction_id = conn[w].transaction_id

\* C17: a create_transaction whose transaction_id no other request has
\* committed, before it or while it ran, succeeds whatever statements of
\* other create_transaction requests ran in between, and the ledger then
\* holds its transaction with the fields it submitted: two concurrent requests
\* with distinct new ids both succeed and the ledger holds both.
C17_DistinctIdsBothSucceed ==
    \A w \in Workers :
        (conn[w].pc = "done" /\ conn[w].clean /\ Unfaulted(w))
            => (conn[w].response.code = 200 /\ HoldsOwn(w))

\* Two requests with distinct ids, the second inserting while the row of the
\* first was uncommitted, have both succeeded.
C17_Witness ==
    /\ conn["w1"].pc = "done" /\ conn["w2"].pc = "done"
    /\ conn["w1"].transaction_id # conn["w2"].transaction_id
    /\ conn["w1"].overlapped \/ conn["w2"].overlapped
    /\ conn["w1"].response.code = 200 /\ conn["w2"].response.code = 200
    /\ HoldsOwn("w1") /\ HoldsOwn("w2")
    /\ Len(ledger) = 2
    /\ ledger[1].gateway # ledger[2].gateway

\* -------------------------------------------------------- listing claims
Listed == resp'.op = "list" /\ resp' # resp /\ resp'.code = 200

\* C18: a listing that returns holds at most limit transactions of the ledger,
\* each once, ordered by created_at descending, only those of the given status
\* when one is given, the newest ones when the limit cuts the list, all of them
\* when it does not; count is the number of transactions returned.
C18_ListOrderedFiltered ==
    [][ Listed =>
          LET ts == resp'.body.transactions
              status == resp'.body.status
              limit == resp'.body.limit
              wanted == {i \in DOMAIN ledger :
                            status \notin {NULL, ""} => ledger[i].status = status}
          IN  /\ Len(ts) <= limit
              /\ resp'.body.count = Len(ts)
              /\ \A a, b \in DOMAIN ts : a < b => ts[a].created_at >= ts[b].created_at
              /\ \A a, b \in DOMAIN ts : a # b => ts[a] # ts[b]
              /\ \A a \in DOMAIN ts : \E i \in wanted : ts[a] = ledger[i]
              /\ Len(ts) < limit => Len(ts) = Cardinality(wanted)
              /\ \A i \in wanted :
                    (\A a \in DOMAIN ts : ts[a] # ledger[i])
                        => \A a \in DOMAIN ts : ts[a].created_at >= ledger[i].created_at
              /\ ledger' = ledger ]_vars

\* A listing of the successful transactions, cut to the newest one of two,
\* with a pending transaction in the ledger.
C18_Witness ==
    /\ resp.op = "list" /\ resp.code = 200
    /\ resp.body.status = "success"
    /\ resp.body.limit = 1
    /\ resp.body.count = 1
    /\ resp.body.transactions[1].created_at = 1
    /\ \E i \in DOMAIN ledger : ledger[i].status = "success" /\ ledger[i].created_at = 0
    /\ \E i \in DOMAIN ledger : ledger[i].status = "pending"

\* ----------------------------------------------- claims on ledger rows
\* The value of a field after an update that was given v for it.
Written(v, old) == IF v \notin {NULL, ""} THEN v ELSE old

\* The fields of a row that are written at its creation only.
CreationFields(row) ==
    <<row.id, row.transaction_id, row.gateway, row.payment_mode, row.base_amount,
      row.fee_amount, row.total_amount, row.created_at>>

\* C19: a successful update_transaction overwrites, among status,
\* gateway_transaction_id and gateway_response, the supplied fields of the
\* transaction with the supplied values and keeps the others, sets updated_at
\* to the time of the update, and changes no other transaction.
C19_PartialUpdate ==
    [][ (UpdateStep /\ resp'.code = 200) =>
          /\ Len(ledger') = Len(ledger)
          /\ \E i \in DOMAIN ledger :
                LET req == last_write'.req
                IN  /\ ledger[i].transaction_id = resp'.tid
                    /\ ledger'[i].status = Written(req.status, ledger[i].status)
                    /\ ledger'[i].gateway_transaction_id =
                          Written(req.gateway_transaction_id,
                                  ledger[i].gateway_transaction_id)
                    /\ ledger'[i].gateway_response =
                          Written(req.gateway_response, ledger[i].gateway_response)
                    /\ ledger'[i].updated_at = now
                    /\ CreationFields(ledger'[i]) = CreationFields(ledger[i])
                    /\ \A j \in DOMAIN ledger \ {i} : ledger'[j] = ledger[j] ]_vars

\* An update that gave a status alone left the gateway reference an earlier
\* update had written, next to an untouched second transaction.
C19_Witness ==
    /\ last_write.op = "update" /\ last_write.code = 200
    /\ last_write.req.status = "failed"
    /\ last_write.req.gateway_transaction_id = NULL
    /\ Len(ledger) = 2
    /\ \E i \in DOMAIN ledger :
          /\ ledger[i].transaction_id = last_write.tid
          /\ ledger[i].status = "failed"
          /\ ledger[i].gateway_transaction_id = "gw_ref"
          /\ ledger[i].gateway_response = "captured"
          /\ ledger[i].updated_at = last_write.at
    /\ \E j \in DOMAIN ledger :
          ledger[j].transaction_id # last_write.tid /\ ledger[j].status = "pending"

\* C20: no step removes a row of the ledger or changes its transaction_id,
\* gateway, payment_mode, base_amount, fee_amount, total_amount or created_at
\* (or its key id).
C20_RowsKept ==
    [][ \A i \in DOMAIN ledger :
            /\ i \in DOMAIN ledger'
            /\ CreationFields(ledger'[i]) = CreationFields(ledger[i]) ]_vars

\* A transaction created at second 0 and updated at second 1 is in the ledger
\* with the amounts of its creation.
C20_Witness ==
    /\ Len(ledger) = 2
    /\ \E i \in DOMAIN ledger :
          /\ ledger[i].created_at = 0
          /\ ledger[i].updated_at = 1
          /\ ledger[i].status = "success"
          /\ ledger[i].gateway_transaction_id = "gw_ref"
          /\ ledger[i].gateway = "Razorpay"
          /\ ledger[i].base_amount = 1500000
          /\ ledger[i].fee_amount = 1500
          /\ ledger[i].total_amount = 1501500

\* ---------------------------------------------------------- outage claims
\* The quote completed with the 9 options at the default rate and a
\* recommended one among them.
CompleteAtDefault(r) ==
    /\ r.code = 200
    /\ Len(r.body.payment_options) = 9
    /\ \A i \in DOMAIN r.body.payment_options :
          r.body.payment_options[i].success_rate = RoundRate(DEFAULT_RATE)
    /\ \E i \in DOMAIN r.body.payment_options :
          r.body.payment_options[i] = r.body.recommended_option

\* No option of a quote for the amount has a total that rounds to 0.
PositiveTotals(amount) ==
    \A i \in DOMAIN payment_methods :
        Round2(calculate_fee(amount, payment_methods[i][2]).total_amount) > 0

\* C21 (as claimed): while the store is unreachable a success-rate lookup
\* returns 95.0, a quote completes with all 9 options and a recommendation,
\* and create, update, get and list answer with the storage failure's 500.
C21_OutageHiddenInQuotes ==
    [][ (~store_up /\ resp' # resp) =>
          /\ resp'.op = "success_rate" => resp'.body.success_rate = DEFAULT_RATE
          /\ resp'.op = "checkout" => CompleteAtDefault(resp')
          /\ resp'.op \in {"create", "update", "get", "list"}
                => (resp'.code = 500 /\ ledger' = ledger) ]_vars

\* C21, the part the code keeps: as claimed, for the quotes whose totals do not
\* round to 0.
C21_OutageHiddenForPositiveTotals ==
    [][ (~store_up /\ resp' # resp) =>
          /\ resp'.op = "success_rate" => resp'.body.success_rate = DEFAULT_RATE
          /\ (resp'.op = "checkout" /\ PositiveTotals(resp'.amount))
                => CompleteAtDefault(resp')
          /\ resp'.op \in {"create", "update", "get", "list"}
                => (resp'.code = 500 /\ ledger' = ledger) ]_vars

C23_ZeroAmountQuoteCompletes ==
    (IsQuote(resp) /\ resp.amount >= 0)
    => /\ resp.code = 200
       /\ resp.body.recommended_option # NoOption
       /\ \E i \in DOMAIN resp.body.payment_options :
             resp.body.payment_options[i] = resp.body.recommended_option

\* C23, for the amounts whose totals do not all round to 0: the quote completes
\* and recommends one of its options.
C23_PositiveTotalQuoteCompletes ==
    (IsQuote(resp) /\ PositiveTotals(resp.amount))
    => /\ resp.code = 200
       /\ resp.body.recommended_option # NoOption
       /\ \E i \in DOMAIN resp.body.payment_options :
             resp.body.payment_options[i] = resp.body.recommended_option
       /\ Len(resp.body.payment_options) = 9

\* ------------------------------------------------ displayed-rate claims
\* The score of an option as a reader computes it from the option: its total
\* and the success_rate it shows.
DisplayedScore(option) == Score(option.total_amount, 100 * option.success_rate)

\* The first of the options whose displayed score no other option's exceeds.
DisplayedBest(payment_options) ==
    LET Beats(i, j) == ScoreBeats(DisplayedScore(payment_options[i]),
                                  DisplayedScore(payment_options[j]))
        best == CHOOSE i \in DOMAIN payment_options :
                   /\ \A j \in DOMAIN payment_options : ~Beats(j, i)
                   /\ \A j \in 1..(i - 1) : Beats(i, j)
    IN  payment_options[best]

QuoteReturns == quote.pc = "return" /\ quote'.pc = "idle"

\* C24 (as claimed): the recommended option of a quote that returns is the
\* one with the greatest score computed from the totals and success rates the
\* quote shows, whatever create requests commit while the quote runs.
C24_RecommendedByDisplayedRates ==
    [][ QuoteReturns =>
          resp'.body.recommended_option = DisplayedBest(resp'.body.payment_options)
      ]_vars

\* C24, for the quotes during which no write commits: the recommended option
\* is the one with the greatest displayed score.
C24_RecommendedByDisplayedRatesUndisturbed ==
    [][ (QuoteReturns /\ quote.started_on = ledger) =>
          resp'.body.recommended_option = DisplayedBest(resp'.body.payment_options)
      ]_vars

=============================================================================
